---- MODULE Spec2Model ----
(***************************************************************************)
(* Model of manual_extractor.py: the PDFProcessor pipeline that reads a    *)
(* list of URLs, trims each to its ".pdf" marker, fetches it through a     *)
(* file cache, extracts its text, detects its language, builds a validated *)
(* PDFData record and finally dumps all records to one JSON file.          *)
(*                                                                         *)
(* Strings are TLA+ strings; Python's 0-based indices are kept in Find and *)
(* SliceTo.  The libraries the script calls (requests, fitz, langdetect,   *)
(* pydantic) are modelled by their outcomes: a response, an exception or a *)
(* value.  The cache directory and the output file are persistent: they    *)
(* survive from one run of the script to the next.                         *)
(***************************************************************************)
EXTENDS Integers, Sequences, FiniteSets, TLC

\* ---------------------------------------------------------------- bounds
MaxLines == 3
MaxChunks == 3
MaxRuns == 2

\* ------------------------------------------------------ program constants
PDF_DIR == "./downloaded_pdfs"
MARKER == ".pdf"
\* Literal["de", "en"]  (SupportedLanguages_fr: a third code accepted)
SupportedLanguages_fr == {"de", "en", "fr"}
SupportedLanguages == {"de", "en"}

\* ------------------------------------------------------------ input sets
\* Pieces a generated input line is concatenated from.
Chunks == {"http://h/", "a", ".pdf", "/", ".p"}

RECURSIVE Flatten(_)
Flatten(cs) == IF cs = <<>> THEN "" ELSE Head(cs) \o Flatten(Tail(cs))

ChunkSeqs == UNION {[1..n -> Chunks] : n \in 0..MaxChunks}

\* Lines as iterating a text file yields them: non-empty, a line terminator
\* only at the end (the last line of a file may lack it).
GenLines == {l \in {Flatten(cs) \o nl : cs \in ChunkSeqs, nl \in {"", "\n"}} : l # ""}

\* Lines of the multi-line input files.
CuratedLines ==
    {"http://h/a.pdf\n", "http://h/b/a.pdf?x\n", "http://h/c.pdf\n", "aaa\n"}

Files == UNION {[1..n -> CuratedLines] : n \in 0..MaxLines}
           \cup {<<l>> : l \in GenLines}

\* ------------------------------------------------ Python string helpers
Min(a, b) == IF a < b THEN a ELSE b
Max(a, b) == IF a > b THEN a ELSE b

\* str.find: 0-based index of the first occurrence of sub in s, or -1
\* (FindLast: str.rfind, the last occurrence).
FindLast(s, sub) ==
    LET cands == {i \in 0..(Len(s) - Len(sub)) : SubSeq(s, i + 1, i + Len(sub)) = sub}
    IN  IF cands = {} THEN -1 ELSE CHOOSE i \in cands : \A j \in cands : j <= i
Find(s, sub) ==
    LET cands == {i \in 0..(Len(s) - Len(sub)) : SubSeq(s, i + 1, i + Len(sub)) = sub}
    IN  IF cands = {} THEN -1 ELSE CHOOSE i \in cands : \A j \in cands : i <= j

\* s[:k]
SliceTo(s, k) ==
    IF k >= 0 THEN SubSeq(s, 1, Min(k, Len(s)))
              ELSE SubSeq(s, 1, Max(Len(s) + k, 0))

\* s.split("/")[-1]  (WholeUrl: the string unsplit)
WholeUrl(s) == s
LastSegment(s) ==
    LET slashes == {i \in 1..Len(s) : SubSeq(s, i, i) = "/"}
    IN  IF slashes = {} THEN s
        ELSE SubSeq(s, (CHOOSE i \in slashes : \A j \in slashes : j <= i) + 1, Len(s))

StartsWith(s, p) == Len(s) >= Len(p) /\ SubSeq(s, 1, Len(p)) = p

\* An absolute http(s) URL with a host, as requests and AnyHttpUrl accept it.
HasHost(s, scheme) ==
    /\ StartsWith(s, scheme)
    /\ Len(s) > Len(scheme)
    /\ SubSeq(s, Len(scheme) + 1, Len(scheme) + 1) \notin {"/", "?", "#", "\n"}
IsHttpUrl(s) == HasHost(s, "http://") \/ HasHost(s, "https://")

\* ------------------------------------------------------------ components
\* PDFProcessor.process_url  (process_url_rfind cuts at the last marker,
\* process_url_checked returns a line without marker whole)
process_url_rfind(url) == SliceTo(url, FindLast(url, MARKER) + Len(MARKER))
process_url_checked(url) == IF Find(url, MARKER) = -1 THEN url
                            ELSE SliceTo(url, Find(url, MARKER) + Len(MARKER))
process_url(url) == SliceTo(url, Find(url, MARKER) + Len(MARKER))

\* os.path.join(self.pdf_dir, url.split("/")[-1])
CachePath(url) == PDF_DIR \o "/" \o LastSegment(url)

\* Paths under the cache directory that name the directory itself.
DirPaths == {PDF_DIR \o "/", PDF_DIR \o "/.", PDF_DIR \o "/.."}

\* What a server can send back: the bytes of a document in some language, of
\* a document without text, or bytes that are no PDF; src is the URL the
\* bytes were served for.
Kinds == {"en", "de", "fr", "empty", "junk"}
Responses(url) ==
    {[status |-> 200, content |-> [src |-> url, kind |-> k]] : k \in Kinds}
      \cup {[status |-> 404, content |-> [src |-> url, kind |-> k]] : k \in {"junk", "en"}}
FetchErrors == {"ConnectionError", "Timeout"}

\* The page texts of a document, in page order.
Pages(content) ==
    IF content.kind = "empty" THEN <<>> ELSE <<content.kind, ":", content.src>>

\* for page in doc: text += page.get_text()
RECURSIVE ConcatPages(_)
ConcatPages(pages) == IF pages = <<>> THEN "" ELSE Head(pages) \o ConcatPages(Tail(pages))

\* langdetect.detect: a language code, or no result on text without features.
CanDetect(t) == t # ""
detect(t) == SubSeq(t, 1, 2)

NowStamp == "DD.MM.YYYY HH:MM:SS"

\* PDFData(...): the constructed record.
PDFData(id, url, t, lang) ==
    [id |-> id, url |-> url, text |-> t, language |-> lang, extraction_date |-> NowStamp]

\* PDFData validation: url: AnyHttpUrl, language: Literal["de", "en"].
Validates(url, lang) == IsHttpUrl(url) /\ lang \in SupportedLanguages

NoRecord == [id |-> -1, url |-> "", text |-> "", language |-> "", extraction_date |-> ""]
Absent == [exists |-> FALSE, records |-> <<>>]

\* A file put into the cache directory before the first run.
PreBody == [src |-> "", kind |-> "en"]
EmptyDir == [p \in {} |-> PreBody]
InitCaches == {EmptyDir, [p \in {PDF_DIR \o "/aaa"} |-> PreBody]}

\* ----------------------------------------------------------------- state
VARIABLES
    file,           \* the lines of the input file
    run,            \* number of the current run of the script
    pc,             \* position of the run
    idx,            \* enumerate index of the current line
    processed_url, filepath, text, language, pdf_data,  \* locals of process_pdf
    data,           \* self.data
    cache,          \* files in self.pdf_dir: path -> content
    out,            \* the output JSON file: whether it exists, its array
    err,            \* the exception that ended the run, "" if none
    outOpens,       \* history: opens of the output path in this run
    net,            \* history: network accesses, over all runs
    trace           \* history: stages executed in this run, <<stage, idx>>

vars == <<file, run, pc, idx, processed_url, filepath, text, language, pdf_data,
          data, cache, out, err, outOpens, net, trace>>

locals == <<processed_url, filepath, text, language, pdf_data>>

Init ==
    /\ file \in Files
    /\ cache \in InitCaches
    /\ run = 1
    /\ pc = "idle"
    /\ idx = 0
    /\ processed_url = "" /\ filepath = "" /\ text = "" /\ language = ""
    /\ pdf_data = NoRecord
    /\ data = <<>>
    /\ out = Absent
    /\ err = ""
    /\ outOpens = 0
    /\ net = <<>>
    /\ trace = <<>>

\* An exception raised in a stage: nothing catches it, the run ends
\* (RaiseSwallowed: the exception is caught and the output is written anyway).
RaiseSwallowed(stage, e) ==
    /\ pc' = "serialize"
    /\ err' = e
    /\ trace' = Append(trace, <<stage, idx>>)
Raise(stage, e) ==
    /\ pc' = "failed"
    /\ err' = e
    /\ trace' = Append(trace, <<stage, idx>>)

Entered(stage) == trace' = Append(trace, <<stage, idx>>)

\* save_to_json calls process_pdf, which opens the input file.
Start ==
    /\ pc = "idle"
    /\ pc' = IF Len(file) = 0 THEN "serialize" ELSE "normalize"
    /\ idx' = 0
    /\ UNCHANGED <<file, run, locals, data, cache, out, err, outOpens, net, trace>>

\* processed_url = self.process_url(url)
Normalize ==
    /\ pc = "normalize"
    /\ processed_url' = process_url(file[idx + 1])
    /\ pc' = "fetch"
    /\ Entered("normalize")
    /\ UNCHANGED <<file, run, idx, filepath, text, language, pdf_data,
                   data, cache, out, err, outOpens, net>>

Exists(path) == path \in DOMAIN cache \/ path \in DirPaths


\* download_pdf, cache hit: the path exists, it is returned as it is
\* (download_pdf_refetch: the existence test is ignored, an http(s) URL is
\* fetched and written again).
download_pdf_refetch ==
    /\ pc = "fetch"
    /\ Exists(CachePath(processed_url))
    /\ IsHttpUrl(processed_url)
    /\ \E r \in Responses(processed_url) :
          /\ net' = Append(net, [url |-> processed_url, result |-> "response",
                                 status |-> r.status,
                                 path |-> CachePath(processed_url)])
          /\ cache' = [p \in DOMAIN cache \cup {CachePath(processed_url)} |->
                          IF p = CachePath(processed_url) THEN r.content ELSE cache[p]]
    /\ filepath' = CachePath(processed_url)
    /\ pc' = "extract"
    /\ Entered("fetch")
    /\ UNCHANGED <<file, run, idx, processed_url, text, language, pdf_data,
                   data, out, err, outOpens>>
download_pdf_cached ==
    /\ pc = "fetch"
    /\ Exists(CachePath(processed_url))
    /\ filepath' = CachePath(processed_url)
    /\ pc' = "extract"
    /\ Entered("fetch")
    /\ UNCHANGED <<file, run, idx, processed_url, text, language, pdf_data,
                   data, cache, out, err, outOpens, net>>

\* download_pdf, cache miss: requests.get returns a response (of any status),
\* its body is written to the path.
download_pdf_fetched ==
    /\ pc = "fetch"
    /\ ~Exists(CachePath(processed_url))
    /\ IsHttpUrl(processed_url)
    /\ \E r \in Responses(processed_url) :
          /\ net' = Append(net, [url |-> processed_url, result |-> "response",
                                 status |-> r.status,
                                 path |-> CachePath(processed_url)])
          /\ cache' = [p \in DOMAIN cache \cup {CachePath(processed_url)} |->
                          IF p = CachePath(processed_url) THEN r.content ELSE cache[p]]
    /\ filepath' = CachePath(processed_url)
    /\ pc' = "extract"
    /\ Entered("fetch")
    /\ UNCHANGED <<file, run, idx, processed_url, text, language, pdf_data,
                   data, out, err, outOpens>>

\* download_pdf, cache miss: requests.get raises after trying the network;
\* the open() of the next line is not reached (download_pdf_raised_open_first:
\* the file is opened for writing before the request is made).
download_pdf_raised_open_first ==
    /\ pc = "fetch"
    /\ ~Exists(CachePath(processed_url))
    /\ IsHttpUrl(processed_url)
    /\ \E e \in FetchErrors :
          /\ net' = Append(net, [url |-> processed_url, result |-> e, status |-> 0,
                                 path |-> ""])
          /\ Raise("fetch", e)
    /\ cache' = [p \in DOMAIN cache \cup {CachePath(processed_url)} |->
                    IF p = CachePath(processed_url)
                    THEN [src |-> processed_url, kind |-> "empty"] ELSE cache[p]]
    /\ UNCHANGED <<file, run, idx, locals, data, out, outOpens>>
download_pdf_raised ==
    /\ pc = "fetch"
    /\ ~Exists(CachePath(processed_url))
    /\ IsHttpUrl(processed_url)
    /\ \E e \in FetchErrors :
          /\ net' = Append(net, [url |-> processed_url, result |-> e, status |-> 0,
                                 path |-> ""])
          /\ Raise("fetch", e)
    /\ UNCHANGED <<file, run, idx, locals, data, cache, out, outOpens>>

\* download_pdf, cache miss: requests.get rejects a string that is no
\* http(s) URL before any network access.
download_pdf_invalid ==
    /\ pc = "fetch"
    /\ ~Exists(CachePath(processed_url))
    /\ ~IsHttpUrl(processed_url)
    /\ Raise("fetch", "MissingSchema")
    /\ UNCHANGED <<file, run, idx, locals, data, cache, out, outOpens, net>>

download_pdf ==
    \/ download_pdf_cached
    \/ download_pdf_fetched
    \/ download_pdf_raised
    \/ download_pdf_invalid

\* text = self.extract_text(filepath)
extract_text ==
    /\ pc = "extract"
    /\ IF filepath \in DOMAIN cache /\ cache[filepath].kind # "junk"
       THEN /\ text' = ConcatPages(Pages(cache[filepath]))
            /\ pc' = "classify"
            /\ Entered("extract")
            /\ err' = err
       ELSE /\ Raise("extract", "ExtractionError")
            /\ text' = text
    /\ UNCHANGED <<file, run, idx, processed_url, filepath, language, pdf_data,
                   data, cache, out, outOpens, net>>

\* language = self.identify_language(text)  (identify_language_fixed: a
\* language supplied without looking at the text)
identify_language_fixed ==
    /\ pc = "classify"
    /\ language' = "en"
    /\ pc' = "build"
    /\ Entered("classify")
    /\ UNCHANGED <<file, run, idx, processed_url, filepath, text, pdf_data,
                   data, cache, out, err, outOpens, net>>
identify_language ==
    /\ pc = "classify"
    /\ IF CanDetect(text)
       THEN /\ language' = detect(text)
            /\ pc' = "build"
            /\ Entered("classify")
            /\ err' = err
       ELSE /\ Raise("classify", "LangDetectException")
            /\ language' = language
    /\ UNCHANGED <<file, run, idx, processed_url, filepath, text, pdf_data,
                   data, cache, out, outOpens, net>>

\* pdf_data = PDFData(id=idx, url=processed_url, language=language, text=text)
\* (BuildRecord_one_based: ids counted from 1)
BuildRecord_one_based ==
    /\ pc = "build"
    /\ IF Validates(processed_url, language)
       THEN /\ pdf_data' = PDFData(idx + 1, processed_url, text, language)
            /\ pc' = "accumulate"
            /\ Entered("build")
            /\ err' = err
       ELSE /\ Raise("build", "ValidationError")
            /\ pdf_data' = pdf_data
    /\ UNCHANGED <<file, run, idx, processed_url, filepath, text, language,
                   data, cache, out, outOpens, net>>
BuildRecord ==
    /\ pc = "build"
    /\ IF Validates(processed_url, language)
       THEN /\ pdf_data' = PDFData(idx, processed_url, text, language)
            /\ pc' = "accumulate"
            /\ Entered("build")
            /\ err' = err
       ELSE /\ Raise("build", "ValidationError")
            /\ pdf_data' = pdf_data
    /\ UNCHANGED <<file, run, idx, processed_url, filepath, text, language,
                   data, cache, out, outOpens, net>>

\* self.data.append(pdf_data), then the next line of the file, if any.
AppendRecord ==
    /\ pc = "accumulate"
    /\ data' = Append(data, pdf_data)
    /\ idx' = idx + 1
    /\ pc' = IF idx + 1 < Len(file) THEN "normalize" ELSE "serialize"
    /\ Entered("accumulate")
    /\ UNCHANGED <<file, run, locals, cache, out, err, outOpens, net>>

\* data_obj.model_dump(): the record as a field-to-value mapping.
model_dump(d) ==
    [id |-> d.id, url |-> d.url, text |-> d.text, language |-> d.language,
     extraction_date |-> d.extraction_date]

\* open(self.output_json_path, 'w') and json.dump of all records.
json_dump ==
    /\ pc = "serialize"
    /\ out' = [exists |-> TRUE,
               records |-> [i \in 1..Len(data) |-> model_dump(data[i])]]
    /\ outOpens' = outOpens + 1
    /\ pc' = "done"
    /\ UNCHANGED <<file, run, idx, locals, data, cache, err, net, trace>>

\* The script is run again: a new processor, the same cache directory and
\* output path.
Rerun ==
    /\ pc \in {"done", "failed"}
    /\ run < MaxRuns
    /\ run' = run + 1
    /\ pc' = "idle"
    /\ idx' = 0
    /\ processed_url' = "" /\ filepath' = "" /\ text' = "" /\ language' = ""
    /\ pdf_data' = NoRecord
    /\ data' = <<>>
    /\ err' = ""
    /\ outOpens' = 0
    /\ trace' = <<>>
    /\ UNCHANGED <<file, cache, out, net>>

Next ==
    \/ Start
    \/ Normalize
    \/ download_pdf
    \/ extract_text
    \/ identify_language
    \/ BuildRecord
    \/ AppendRecord
    \/ json_dump
    \/ Rerun

Spec == Init /\ [][Next]_vars


\* ------------------------------------------------------------ properties
Last(s) == s[Len(s)]
LineOf(i) == file[i + 1]

\* Start positions (1-based) of the marker in a line.
MarkerStarts(l) == {j \in 1..Len(l) : j + 3 <= Len(l) /\ SubSeq(l, j, j + 3) = ".pdf"}
HasMarker(l) == MarkerStarts(l) # {}

Accesses(u) == {n \in DOMAIN net : net[n].url = u}
ResponsesTo(u) == {n \in DOMAIN net : net[n].url = u /\ net[n].result = "response"}
Urls == {net[n].url : n \in DOMAIN net}

\* C1: all-or-nothing run.  A run that failed in some stage has never opened
\* the output path, every stage it executed belongs to a line not after the
\* failing one, and it executes nothing more (its only continuation is a new
\* run, which finds output and cache as the failure left them); the output
\* is written only when every line has produced a record.
C1_AllOrNothing ==
    /\ [](err # "" => /\ pc = "failed"
                      /\ outOpens = 0
                      /\ trace # <<>>
                      /\ Last(trace)[2] = idx
                      /\ \A j \in DOMAIN trace : trace[j][2] <= idx
                      /\ Len(data) = idx)
    /\ [](outOpens > 0 => err = "" /\ pc = "done" /\ Len(data) = Len(file))
    /\ [][out' # out => pc = "serialize" /\ err = "" /\ Len(data) = Len(file)]_vars
    /\ [][pc = "failed" => run' = run + 1 /\ out' = out /\ cache' = cache /\ net' = net]_vars

\* A run failed on a middle line: records exist, lines remain.
C1_Witness == err # "" /\ Len(data) >= 1 /\ Len(file) >= idx + 2 /\ out = Absent

\* C2: records carry the ordinal of their line and its normalized URL, in
\* line order; a finished run has one record per line, also in the output.
C2_IdsInOrder ==
    /\ \A i \in 1..Len(data) :
          data[i].id = i - 1 /\ data[i].url = process_url(LineOf(i - 1))
    /\ \A i, j \in 1..Len(data) : i # j => data[i].id # data[j].id
    /\ pc = "done" =>
          /\ Len(data) = Len(file)
          /\ out.exists
          /\ Len(out.records) = Len(file)
          /\ \A i \in 1..Len(file) :
                /\ out.records[i].id = i - 1
                /\ out.records[i].url = process_url(LineOf(i - 1))

C2_Witness == pc = "done" /\ Len(file) = 3 /\ Len(out.records) = 3 /\ run = 2

\* C3 as stated: no URL is ever accessed on the network more than once.
C3_AtMostOneAccess == \A u \in Urls : Cardinality(Accesses(u)) <= 1

\* C3 amended: a call that finds the path present does no network access,
\* leaves the cache as it is and returns that path; files in the cache never
\* change; per URL at most one network access returns a response and so
\* creates the cache file.
C3_FetchIdempotent ==
    /\ [][pc = "fetch" /\ Exists(PDF_DIR \o "/" \o LastSegment(processed_url)) =>
            /\ net' = net
            /\ cache' = cache
            /\ pc' = "extract"
            /\ filepath' = PDF_DIR \o "/" \o LastSegment(processed_url)]_vars
    /\ [][\A p \in DOMAIN cache : p \in DOMAIN cache' /\ cache'[p] = cache[p]]_vars
    /\ [](\A u \in Urls : Cardinality(ResponsesTo(u)) <= 1)

\* A second call for a URL that was fetched before has returned.
C3_Witness ==
    /\ pc = "extract"
    /\ idx >= 1
    /\ data[idx].url = processed_url
    /\ Cardinality(Accesses(processed_url)) = 1

\* C4: a network access that ends in a connection failure, a timeout or a
\* non-success status makes download_pdf raise: no path is returned, no
\* record is built, the run is over.
FailedAccess(a) == a.result \in {"ConnectionError", "Timeout"} \/ a.status \notin 200..299
C4_FailedFetchIsFatal ==
    [][net' # net /\ FailedAccess(Last(net')) =>
          pc' = "failed" /\ filepath' = filepath /\ data' = data]_vars

\* C5: after a timeout of the fetch the cache holds no file for that URL and
\* the run has not opened the output; every file the program put into the
\* cache was written from a response.
C5_TimeoutLeavesNoFile ==
    /\ err = "Timeout" =>
          /\ pc = "failed"
          /\ (PDF_DIR \o "/" \o LastSegment(processed_url)) \notin DOMAIN cache
          /\ outOpens = 0
    /\ \A p \in DOMAIN cache :
          \/ cache[p] = PreBody
          \/ \E n \in DOMAIN net : /\ net[n].result = "response"
                                   /\ net[n].path = p
                                   /\ net[n].url = cache[p].src

C5_Witness == err = "Timeout" /\ Len(data) >= 1 /\ DOMAIN cache # {}

\* C6: the validation gate.  Building with a language outside {"de", "en"}
\* (or a string that is no http(s) URL) fails with a validation error and
\* appends nothing; building with a supported language and an http(s) URL
\* succeeds; all records in the collection have a supported language.
C6_ValidationGate ==
    /\ [](\A i \in 1..Len(data) : data[i].language \in {"de", "en"})
    /\ [][pc = "build" =>
            IF language \in {"de", "en"} /\ IsHttpUrl(processed_url)
            THEN /\ pc' = "accumulate"
                 /\ err' = ""
                 /\ pdf_data'.language = language
                 /\ pdf_data'.url = processed_url
            ELSE /\ pc' = "failed"
                 /\ err' = "ValidationError"
                 /\ data' = data]_vars
    /\ [](err = "ValidationError" => Len(data) = idx)

C6_Witness == err = "ValidationError" /\ language = "fr" /\ Len(data) >= 1

\* C7: for a line with the marker, process_url returns the prefix of the
\* line that ends with the first occurrence of the marker.
C7_PrefixThroughFirstMarker ==
    (pc = "fetch" /\ HasMarker(LineOf(idx))) =>
        \E k \in 4..Len(LineOf(idx)) :
            /\ processed_url = SubSeq(LineOf(idx), 1, k)
            /\ (k - 3) \in MarkerStarts(LineOf(idx))
            /\ \A j \in MarkerStarts(LineOf(idx)) : j >= k - 3

\* A line with two markers and text behind the first one was normalized.
C7_Witness ==
    /\ pc = "fetch"
    /\ Cardinality(MarkerStarts(LineOf(idx))) >= 2
    /\ Len(processed_url) < Len(LineOf(idx))
    /\ Len(processed_url) > 4

\* C8: the stages of a run are executed in the fixed order, line by line;
\* every record's text is what extraction returned for its file and its
\* language is what the classifier returns on that text.
StageOrder == <<"normalize", "fetch", "extract", "classify", "build", "accumulate">>
C8_StageOrder ==
    /\ \A j \in 1..Len(trace) :
          trace[j] = <<StageOrder[((j - 1) % 6) + 1], (j - 1) \div 6>>
    /\ Len(data) = Cardinality({j \in DOMAIN trace : trace[j][1] = "accumulate"})
    /\ \A i \in 1..Len(data) :
          /\ data[i].text # ""
          /\ data[i].language = SubSeq(data[i].text, 1, 2)
          /\ data[i].text = ConcatPages(Pages(cache[CachePath(data[i].url)]))
    /\ pc \in {"build", "accumulate"} => language = SubSeq(text, 1, 2)
    /\ pc = "accumulate" => pdf_data.language = language /\ pdf_data.text = text

C8_Witness ==
    /\ pc = "done"
    /\ Len(data) >= 2
    /\ data[1].language # data[2].language
    /\ Len(trace) = 6 * Len(data)

\* C9: for a line without the marker, process_url returns the first three
\* characters (the whole line if it is shorter) and the run goes on to the
\* fetch stage; normalization never ends a run.
C9_NoMarkerTruncates ==
    /\ [](pc = "fetch" /\ ~HasMarker(LineOf(idx)) =>
            processed_url = IF Len(LineOf(idx)) <= 3 THEN LineOf(idx)
                            ELSE SubSeq(LineOf(idx), 1, 3))
    /\ [](err # "" => Last(trace)[1] # "normalize")
    /\ [][pc = "normalize" => pc' = "fetch" /\ err' = ""]_vars

C9_Witness ==
    /\ pc = "fetch"
    /\ ~HasMarker(LineOf(idx))
    /\ Len(LineOf(idx)) > 3
    /\ Len(processed_url) = 3

\* C10: the cache is keyed by the final path segment only.  Once a URL got a
\* response, a call for another URL with the same final segment does no
\* network access and returns the path written then; the record built from
\* it has the text of the bytes served for the first URL.
RECURSIVE FinalSegment(_)
FinalSegment(u) ==
    IF u = "" \/ SubSeq(u, Len(u), Len(u)) = "/" THEN ""
    ELSE FinalSegment(SubSeq(u, 1, Len(u) - 1)) \o SubSeq(u, Len(u), Len(u))
SameFinalSegment(u, v) == FinalSegment(u) = FinalSegment(v)
C10_KeyedByFinalSegment ==
    /\ [][\A n \in DOMAIN net :
            (/\ pc = "fetch"
             /\ net[n].result = "response"
             /\ net[n].url # processed_url
             /\ SameFinalSegment(net[n].url, processed_url))
            => /\ net' = net
               /\ cache' = cache
               /\ pc' = "extract"
               /\ filepath' = net[n].path]_vars
    /\ [](\A i \in 1..Len(data) : \A n \in DOMAIN net :
            (net[n].result = "response" /\ SameFinalSegment(net[n].url, data[i].url))
            => /\ cache[net[n].path].src = net[n].url
               /\ data[i].text = ConcatPages(Pages(cache[net[n].path])))

\* A record whose url is not the URL its text was served for.
C10_Witness ==
    \E i \in 1..Len(data) : \E n \in DOMAIN net :
        /\ net[n].result = "response"
        /\ net[n].url # data[i].url
        /\ SameFinalSegment(net[n].url, data[i].url)
        /\ data[i].text = ConcatPages(Pages([src |-> net[n].url, kind |-> data[i].language]))
        /\ ResponsesTo(data[i].url) = {}

====
